---- MODULE Spec2Model ----
(***************************************************************************)
(* Session registry and request handlers of src/main.py.                   *)
(*                                                                         *)
(* The module-level dictionary ib_connections maps a client id to an IB    *)
(* session object and is shared by eight request handlers that run as      *)
(* coroutines on one event loop.  A handler runs without interruption      *)
(* until it awaits (or makes a blocking ib_insync call, which under        *)
(* nest_asyncio runs the event loop again); each action below is one such  *)
(* uninterrupted stretch of one handler.                                   *)
(*                                                                         *)
(* The IB session is an external collaborator: the outcome of each of its  *)
(* calls (returns, raises, what it returns) is chosen nondeterministically.*)
(***************************************************************************)
EXTENDS Integers, Sequences, FiniteSets, TLC

\* ------------------------------------------------------------------ bounds
NumClients == 2      \* client ids requests may name
MaxRequests == 3     \* requests issued in one behaviour
MaxTrades == 1       \* open trades of the flattened symbol
MaxQty == 1          \* largest order / position quantity (absolute value)

ClientIds == 1..NumClients
Requests == 1..MaxRequests
\* The IB object constructed by request r (line 84) is identified by r.
Sessions == Requests
Quantities == (0 - MaxQty)..MaxQty

\* Python's None: `ib = None` (line 56), a missing dictionary key, a missing
\* response field, an unlocked lock.
None == 0

Kinds == {"connect", "disconnect", "accounts", "account_detail",
          "send_order", "flatten", "contracts_position", "orders"}
\* Handlers that enter `async with lock` (lines 58, 202, 245, 313, 332).
AsyncLockKinds == {"connect", "send_order", "flatten", "contracts_position", "orders"}
\* Handlers that look a session up and need it connected.
GuardedKinds == Kinds \ {"connect", "disconnect"}

VARIABLES
    ib_connections,  \* [ClientIds -> Sessions \cup {None}]: the dictionary (None: key absent)
    lock,            \* request holding the asyncio.Lock, or None
    waiters,         \* requests that have not passed `async with lock` yet, in arrival order
    conn,            \* conn[s]: state of IB object s ("none" before it is constructed)
    req,             \* req[r]: the request's input (kind, client_id, position_qty)
    pc,              \* pc[r]: where request r is
    ib,              \* ib[r]: the handler's local variable `ib`
    ops,             \* ops[r]: the IB calls request r has made, in order, with outcomes
                     \* (isConnected(), the guard's local test, is not logged)
    result,          \* result[r]: the dictionary the handler returned
    inserted,        \* client ids ever stored as a key of ib_connections
    absentAtIssue    \* absentAtIssue[r]: the key was absent when request r arrived

vars == <<ib_connections, lock, waiters, conn, req, pc, ib, ops, result,
          inserted, absentAtIssue>>

\* ------------------------------------------------------- response shapes
NoResult == [status |-> FALSE, message |-> "", clientId |-> None, data |-> None,
             position |-> <<>>]

\* {"status": False, "message": ..., "clientId": client_id}
Failure(msg, c) == [status |-> FALSE, message |-> msg, clientId |-> c, data |-> None,
                    position |-> <<>>]

\* Lines 132, 158, 178, 204, 247, 315, 334.
NoConnection(c) == Failure("No connection found for clientId", c)

\* Lines 163, 183, 209, 252, 320, 339.
NotConnected(c) == Failure("Not connected", c)

\* The exception leaves the handler: no dictionary is returned.
ExceptHandlerMissing(c) == NoResult

\* The `except Exception as e` clause of every handler:
\* {"status": False, "message": f"Error: {e}", "clientId": client_id}.
ExceptHandler(c) == Failure("Error", c)

\* Lines 72-81 and 102-111: {"status": True, "message": ..., "data": {"clientId": ...}}.
ConnectSuccess(msg, c) == [status |-> TRUE, message |-> msg, clientId |-> None, data |-> c,
                           position |-> <<>>]

\* Lines 113-119: {"status": False, "message": "Connection failed", "data": {"clientId": ...}}.
ConnectionFailed(c) == [status |-> FALSE, message |-> "Connection failed",
                        clientId |-> None, data |-> c, position |-> <<>>]

\* {"status": True, "message": ..., "clientId": client_id, ...}
Success(msg, c, pos) == [status |-> TRUE, message |-> msg, clientId |-> c, data |-> None,
                         position |-> pos]

\* ------------------------------------------------------------- helpers
\* ib.isConnected()
IsConnected(s) == conn[s] = "connected"

\* `client_id in ib_connections`
Present(c) == ib_connections[c] # None

\* The isConnected test of the condition inverted.
AlreadyConnectedInverted(c) == Present(c) /\ ~IsConnected(ib_connections[c])

\* The condition of lines 59-62.
AlreadyConnected(c) == Present(c) /\ IsConnected(ib_connections[c])

\* One IB call in the log of a request.
OpEntry(op, arg, outcome) == [op |-> op, arg |-> arg, outcome |-> outcome]

\* The call a request is suspended in returns or raises.
Completed(log, outcome) == [log EXCEPT ![Len(log)].outcome = outcome]

\* A request is inside an IB call that has not returned yet.
InBrokerCall(r) == ops[r] # <<>> /\ ops[r][Len(ops[r])].outcome = "pending"

\* What a call on session s can do: it can always raise, and it can only
\* succeed on a connected session.
Outcomes(s) == IF IsConnected(s) THEN {"ok", "raise"} ELSE {"raise"}

\* Lines 65-81 and 93-111: the answer of a connect whose accountSummaryAsync
\* ended with outcome o.  `rows` says whether the returned list has an element:
\* accounts[0] on an empty list raises IndexError, which lines 120-122 turn
\* into the error result like any exception of the call itself.
SummaryResult(o, rows, message, c) ==
    IF o = "ok" /\ rows THEN ConnectSuccess(message, c) ELSE ExceptHandler(c)

Finish(r, res) ==
    /\ pc' = [pc EXCEPT ![r] = "done"]
    /\ result' = [result EXCEPT ![r] = res]

\* ------------------------------------------------------------------ Init
Init ==
    /\ ib_connections = [c \in ClientIds |-> None]
    /\ lock = None
    /\ waiters = <<>>
    /\ conn = [s \in Sessions |-> "none"]
    /\ req = [r \in Requests |-> [kind |-> "none", client_id |-> None, position_qty |-> 0]]
    /\ pc = [r \in Requests |-> "idle"]
    /\ ib = [r \in Requests |-> None]
    /\ ops = [r \in Requests |-> <<>>]
    /\ result = [r \in Requests |-> NoResult]
    /\ inserted = {}
    /\ absentAtIssue = [r \in Requests |-> FALSE]

\* Requests arrive in the order of their numbers.
CanArrive(r) == pc[r] = "idle" /\ (IF r = 1 THEN TRUE ELSE pc[r - 1] # "idle")

Arrive(r, k, c, q) ==
    /\ req' = [req EXCEPT ![r] = [kind |-> k, client_id |-> c, position_qty |-> q]]
    /\ absentAtIssue' = [absentAtIssue EXCEPT ![r] = ~Present(c)]

\* --------------------------------------------------- async with lock: entry
\* A request for a handler that starts with `async with lock` arrives.  The
\* event loop starts handlers in arrival order and asyncio.Lock serves its
\* waiters in arrival order, so the requests pass `async with lock` in the
\* order they arrived; the request runs its locked block in its next step.
EnterAsyncLock(r, k, c, q) ==
    /\ CanArrive(r)
    /\ k \in AsyncLockKinds
    /\ k # "send_order" => q = 0
    /\ Arrive(r, k, c, q)
    /\ waiters' = Append(waiters, r)
    /\ pc' = [pc EXCEPT ![r] = "wait_lock"]
    /\ UNCHANGED <<ib_connections, lock, conn, ib, ops, result, inserted>>

\* lock.acquire() returns to request r: the lock is free and r is next.
HoldsTurn(r) == pc[r] = "wait_lock" /\ lock = None /\ waiters # <<>> /\ Head(waiters) = r

\* ------------------------------------------------------------ connect_ib
\* Lines 58-63: the session is present and connected; accountSummaryAsync is
\* awaited inside the `async with` block, so the lock stays held.
ConnectReuse(r) ==
    /\ HoldsTurn(r)
    /\ req[r].kind = "connect"
    /\ AlreadyConnected(req[r].client_id)
    /\ lock' = r
    /\ waiters' = Tail(waiters)
    /\ ops' = [ops EXCEPT ![r] = Append(@, OpEntry("accountSummaryAsync", <<>>, "pending"))]
    /\ pc' = [pc EXCEPT ![r] = "reuse_summary"]
    /\ UNCHANGED <<ib_connections, conn, req, ib, result, inserted, absentAtIssue>>

\* The summary returns as below, but the lock is not released on the way out.
ConnectReuseReturnKeepingLock(r) ==
    /\ pc[r] = "reuse_summary"
    /\ \E o \in Outcomes(ib_connections[req[r].client_id]), rows \in BOOLEAN :
        /\ ops' = [ops EXCEPT ![r] = Completed(@, o)]
        /\ Finish(r, SummaryResult(o, rows, "Already connected", req[r].client_id))
    /\ UNCHANGED <<ib_connections, lock, waiters, conn, req, ib, inserted, absentAtIssue>>

\* Lines 63-81: the awaited summary returns (with or without rows) or the
\* await raises; leaving the `async with` block releases the lock either way.
ConnectReuseReturn(r) ==
    /\ pc[r] = "reuse_summary"
    /\ \E o \in Outcomes(ib_connections[req[r].client_id]), rows \in BOOLEAN :
        /\ ops' = [ops EXCEPT ![r] = Completed(@, o)]
        /\ Finish(r, SummaryResult(o, rows, "Already connected", req[r].client_id))
    /\ lock' = None
    /\ UNCHANGED <<ib_connections, waiters, conn, req, ib, inserted, absentAtIssue>>

\* Lines 83-88: otherwise a new IB object is constructed and stored under the
\* client id, the lock is released and connectAsync is awaited.
ConnectCreate(r) ==
    /\ HoldsTurn(r)
    /\ req[r].kind = "connect"
    /\ ~AlreadyConnected(req[r].client_id)
    /\ waiters' = Tail(waiters)
    /\ ib' = [ib EXCEPT ![r] = r]
    /\ ib_connections' = [ib_connections EXCEPT ![req[r].client_id] = r]
    /\ inserted' = inserted \cup {req[r].client_id}
    /\ conn' = [conn EXCEPT ![r] = "connecting"]
    /\ ops' = [ops EXCEPT ![r] = Append(@, OpEntry("connectAsync", <<>>, "pending"))]
    /\ pc' = [pc EXCEPT ![r] = "connecting"]
    /\ UNCHANGED <<lock, req, result, absentAtIssue>>

\* connectAsync as below, but a failed connect also deletes the client's entry.
ConnectReturnCleaningUp(r) ==
    /\ pc[r] = "connecting"
    /\ \E o \in {"ok", "not_connected", "raise"} :
        /\ conn' = [conn EXCEPT ![r] = IF o = "ok" THEN "connected" ELSE "disconnected"]
        /\ IF o = "ok"
           THEN /\ ops' = [ops EXCEPT ![r] = Append(Completed(@, o),
                              OpEntry("accountSummaryAsync", <<>>, "pending"))]
                /\ pc' = [pc EXCEPT ![r] = "connect_summary"]
                /\ UNCHANGED <<result, ib_connections>>
           ELSE /\ ops' = [ops EXCEPT ![r] = Completed(@, o)]
                /\ ib_connections' = [ib_connections EXCEPT ![req[r].client_id] = None]
                /\ Finish(r, IF o = "raise" THEN ExceptHandler(req[r].client_id)
                             ELSE ConnectionFailed(req[r].client_id))
    /\ UNCHANGED <<lock, waiters, req, ib, inserted, absentAtIssue>>

\* Lines 88-122: connectAsync returns connected (the summary is awaited next),
\* returns without a connection, or raises.
ConnectReturn(r) ==
    /\ pc[r] = "connecting"
    /\ \E o \in {"ok", "not_connected", "raise"} :
        /\ conn' = [conn EXCEPT ![r] = IF o = "ok" THEN "connected" ELSE "disconnected"]
        /\ IF o = "ok"
           THEN /\ ops' = [ops EXCEPT ![r] = Append(Completed(@, o),
                              OpEntry("accountSummaryAsync", <<>>, "pending"))]
                /\ pc' = [pc EXCEPT ![r] = "connect_summary"]
                /\ UNCHANGED result
           ELSE /\ ops' = [ops EXCEPT ![r] = Completed(@, o)]
                /\ Finish(r, IF o = "raise" THEN ExceptHandler(req[r].client_id)
                             ELSE ConnectionFailed(req[r].client_id))
    /\ UNCHANGED <<ib_connections, lock, waiters, req, ib, inserted, absentAtIssue>>

\* Lines 91-111 and 120-122.
ConnectSummaryReturn(r) ==
    /\ pc[r] = "connect_summary"
    /\ \E o \in Outcomes(ib[r]), rows \in BOOLEAN :
        /\ ops' = [ops EXCEPT ![r] = Completed(@, o)]
        /\ Finish(r, SummaryResult(o, rows, "Connected", req[r].client_id))
    /\ UNCHANGED <<ib_connections, lock, waiters, conn, req, ib, inserted, absentAtIssue>>

\* --------------------------------------------------------- disconnect_ib
\* Line 130: `with lock:` on an asyncio.Lock.  asyncio.Lock is not a
\* synchronous context manager, so the statement raises before the body runs
\* and the handler's except clause returns the error (lines 146-148).
DisconnectIb(r, c) ==
    /\ CanArrive(r)
    /\ Arrive(r, "disconnect", c, 0)
    /\ Finish(r, ExceptHandler(c))
    /\ UNCHANGED <<ib_connections, lock, waiters, conn, ib, ops, inserted>>

\* ---------------------------------------------------------- get_accounts
\* /api/accounts, line 156: `with lock:` raises in the same way (lines 168-170).
GetAccounts(r, c) ==
    /\ CanArrive(r)
    /\ Arrive(r, "accounts", c, 0)
    /\ Finish(r, ExceptHandler(c))
    /\ UNCHANGED <<ib_connections, lock, waiters, conn, ib, ops, inserted>>

\* --------------------------------------------- get_accounts (account-detail)
\* /api/account-detail, lines 175-186: the dictionary is read without the lock.
AccountDetail(r, c) ==
    /\ CanArrive(r)
    /\ Arrive(r, "account_detail", c, 0)
    /\ IF ~Present(c)
       THEN /\ Finish(r, NoConnection(c))
            /\ UNCHANGED <<ib, ops>>
       ELSE /\ ib' = [ib EXCEPT ![r] = ib_connections[c]]
            /\ IF ~IsConnected(ib_connections[c])
               THEN /\ Finish(r, NotConnected(c))
                    /\ UNCHANGED ops
               ELSE /\ ops' = [ops EXCEPT ![r] =
                                 Append(@, OpEntry("accountSummaryAsync", <<>>, "pending"))]
                    /\ pc' = [pc EXCEPT ![r] = "detail_summary"]
                    /\ UNCHANGED result
    /\ UNCHANGED <<ib_connections, lock, waiters, conn, inserted>>

\* Lines 186-197.
AccountDetailReturn(r) ==
    /\ pc[r] = "detail_summary"
    /\ \E o \in Outcomes(ib[r]) :
        /\ ops' = [ops EXCEPT ![r] = Completed(@, o)]
        /\ Finish(r, IF o = "ok"
                     THEN Success("Accounts retrieved successfully", req[r].client_id, <<>>)
                     ELSE ExceptHandler(req[r].client_id))
    /\ UNCHANGED <<ib_connections, lock, waiters, conn, req, ib, inserted, absentAtIssue>>

\* The guard's early returns, but the lookup of an absent key stores a new
\* IB object under it (a lookup that creates).
GuardFailsCreating(r) ==
    /\ HoldsTurn(r)
    /\ req[r].kind \in GuardedKinds
    /\ ~AlreadyConnected(req[r].client_id)
    /\ waiters' = Tail(waiters)
    /\ ib' = [ib EXCEPT ![r] = ib_connections[req[r].client_id]]
    /\ ib_connections' = [ib_connections EXCEPT ![req[r].client_id] =
                             IF @ = None THEN r ELSE @]
    /\ Finish(r, IF Present(req[r].client_id) THEN NotConnected(req[r].client_id)
                 ELSE NoConnection(req[r].client_id))
    /\ UNCHANGED <<lock, conn, req, ops, inserted, absentAtIssue>>

\* ------------------------------------------------ the guard under the lock
\* Lines 202-209, 245-252, 313-320, 332-339: the lookup happens inside
\* `async with lock`, the isConnected test right after the block, with no
\* await in between.  GuardFails covers the two early returns.
GuardFails(r) ==
    /\ HoldsTurn(r)
    /\ req[r].kind \in GuardedKinds
    /\ ~AlreadyConnected(req[r].client_id)
    /\ waiters' = Tail(waiters)
    /\ ib' = [ib EXCEPT ![r] = ib_connections[req[r].client_id]]
    /\ Finish(r, IF Present(req[r].client_id) THEN NotConnected(req[r].client_id)
                 ELSE NoConnection(req[r].client_id))
    /\ UNCHANGED <<ib_connections, lock, conn, req, ops, inserted, absentAtIssue>>

\* The guard passes for a request of kind k: the lock is taken and released
\* and `ib` names the stored session.
GuardPasses(r, k) ==
    /\ HoldsTurn(r)
    /\ req[r].kind = k
    /\ AlreadyConnected(req[r].client_id)
    /\ waiters' = Tail(waiters)
    /\ ib' = [ib EXCEPT ![r] = ib_connections[req[r].client_id]]
    /\ UNCHANGED <<ib_connections, lock, conn, req, inserted, absentAtIssue>>

\* ------------------------------------------------ get_contracts_position
\* Lines 313-323: the guard, then the blocking ib.reqPositions().
ContractsPosition(r) ==
    /\ GuardPasses(r, "contracts_position")
    /\ ops' = [ops EXCEPT ![r] = Append(@, OpEntry("reqPositions", <<>>, "pending"))]
    /\ pc' = [pc EXCEPT ![r] = "positions"]
    /\ UNCHANGED result

\* Lines 323-327.
ContractsPositionReturn(r) ==
    /\ pc[r] = "positions"
    /\ req[r].kind = "contracts_position"
    /\ \E o \in Outcomes(ib[r]) :
        /\ ops' = [ops EXCEPT ![r] = Completed(@, o)]
        /\ Finish(r, IF o = "ok"
                     THEN Success("Contracts position retrieved successfully",
                                  req[r].client_id, <<>>)
                     ELSE ExceptHandler(req[r].client_id))
    /\ UNCHANGED <<ib_connections, lock, waiters, conn, req, ib, inserted, absentAtIssue>>

\* ------------------------------------------------------------ get_orders
\* Lines 332-368: the guard, then ib.openTrades(), which reads the session's
\* local list of trades and does not wait.
GetOrders(r) ==
    /\ GuardPasses(r, "orders")
    /\ ops' = [ops EXCEPT ![r] = Append(@, OpEntry("openTrades", <<>>, "ok"))]
    /\ Finish(r, Success("Fetched orders successfully", req[r].client_id, <<>>))

\* ------------------------------------------------------ place_gtc_orders
\* abs()
Abs(n) == IF n < 0 THEN 0 - n ELSE n

\* Line 216: MarketOrder('BUY', request.position_qty)
EntryOrder(q) == <<"MKT", "BUY", q>>
\* Line 221: StopOrder('SELL', abs(request.position_qty), request.stop_price)
StopLossOrder(q) == <<"STP", "SELL", Abs(q)>>
\* Line 228: LimitOrder('SELL', abs(request.position_qty), request.limit_price)
ProfitTargetOrder(q) == <<"LMT", "SELL", Abs(q)>>

\* placeOrder as below, but an order that cannot be sent is ignored and the
\* handler goes on to the next step.
PlaceThenSleepSwallowing(r, log, order, sleepPc) ==
    \E o \in Outcomes(ib[r]) :
        /\ ops' = [ops EXCEPT ![r] = Append(log, OpEntry("placeOrder", order, o))]
        /\ pc' = [pc EXCEPT ![r] = sleepPc]
        /\ UNCHANGED result

\* ib.placeOrder(contract, order) sends the order without waiting; it raises
\* when the order cannot be sent.  The next stop is the ib.sleep(2) after it.
PlaceThenSleep(r, log, order, sleepPc) ==
    \E o \in Outcomes(ib[r]) :
        /\ ops' = [ops EXCEPT ![r] = Append(log, OpEntry("placeOrder", order, o))]
        /\ IF o = "ok"
           THEN pc' = [pc EXCEPT ![r] = sleepPc] /\ UNCHANGED result
           ELSE Finish(r, ExceptHandler(req[r].client_id))

\* Lines 202-213: the guard, then the blocking ib.qualifyContracts(contract).
SendOrder(r) ==
    /\ GuardPasses(r, "send_order")
    /\ ops' = [ops EXCEPT ![r] = Append(@, OpEntry("qualifyContracts", <<>>, "pending"))]
    /\ pc' = [pc EXCEPT ![r] = "qualify"]
    /\ UNCHANGED result

\* Lines 213-218: qualifyContracts returns, the entry order is placed.
SendOrderEntry(r) ==
    /\ pc[r] = "qualify"
    /\ req[r].kind = "send_order"
    /\ \E o \in Outcomes(ib[r]) :
        IF o = "ok"
        THEN PlaceThenSleep(r, Completed(ops[r], o), EntryOrder(req[r].position_qty),
                            "sleep_entry")
        ELSE /\ ops' = [ops EXCEPT ![r] = Completed(@, o)]
             /\ Finish(r, ExceptHandler(req[r].client_id))
    /\ UNCHANGED <<ib_connections, lock, waiters, conn, req, ib, inserted, absentAtIssue>>

\* Lines 218-225: after the sleep the stop-loss order is placed.
SendOrderStop(r) ==
    /\ pc[r] = "sleep_entry"
    /\ PlaceThenSleep(r, ops[r], StopLossOrder(req[r].position_qty), "sleep_stop")
    /\ UNCHANGED <<ib_connections, lock, waiters, conn, req, ib, inserted, absentAtIssue>>

\* Lines 225-232: after the sleep the profit-target order is placed.
SendOrderTarget(r) ==
    /\ pc[r] = "sleep_stop"
    /\ PlaceThenSleep(r, ops[r], ProfitTargetOrder(req[r].position_qty), "sleep_target")
    /\ UNCHANGED <<ib_connections, lock, waiters, conn, req, ib, inserted, absentAtIssue>>

\* Lines 232-234: after the last sleep the blocking ib.reqPositions().
SendOrderPositions(r) ==
    /\ pc[r] = "sleep_target"
    /\ ops' = [ops EXCEPT ![r] = Append(@, OpEntry("reqPositions", <<>>, "pending"))]
    /\ pc' = [pc EXCEPT ![r] = "positions"]
    /\ UNCHANGED <<ib_connections, lock, waiters, conn, req, ib, result, inserted,
                   absentAtIssue>>

\* Lines 234-240: the answer is returned (its payload is not modelled).
SendOrderReturn(r) ==
    /\ pc[r] = "positions"
    /\ req[r].kind = "send_order"
    /\ \E o \in Outcomes(ib[r]) :
        /\ ops' = [ops EXCEPT ![r] = Completed(@, o)]
        /\ Finish(r, IF o = "ok"
                     THEN Success("Orders placed successfully", req[r].client_id, <<>>)
                     ELSE ExceptHandler(req[r].client_id))
    /\ UNCHANGED <<ib_connections, lock, waiters, conn, req, ib, inserted, absentAtIssue>>

\* --------------------------------------------------------- flatten_order
\* Lines 265-269: the open trades of the symbol are cancelled in turn.  A
\* cancelOrder that raises is caught by the inner except clause, whose print
\* reads the undefined name `symbol`: the NameError leaves the loop.
\* n trades, `failed` says whether the last of them raised.
RECURSIVE Cancels(_, _)
Cancels(n, failed) ==
    IF n = 0 THEN <<>>
    ELSE Append(Cancels(n - 1, FALSE),
                OpEntry("cancelOrder", <<>>, IF failed THEN "raise" ELSE "ok"))

\* Lines 245-272: the guard, ib.openTrades() (a local read), the early return
\* for no open trades of the symbol (lines 258-263, which read the undefined
\* names `symbol` and `client_id`, so the NameError reaches the handler's
\* except clause), the cancellations, then the blocking qualifyContracts.
FlattenOrder(r) ==
    /\ GuardPasses(r, "flatten")
    /\ \E n \in 0..MaxTrades :
        LET opened == Append(ops[r], OpEntry("openTrades", <<>>, "ok")) IN
        IF n = 0
        THEN /\ ops' = [ops EXCEPT ![r] = opened]
             /\ Finish(r, ExceptHandler(req[r].client_id))
        ELSE \/ \E k \in 1..n :
                    /\ ops' = [ops EXCEPT ![r] = opened \o Cancels(k, TRUE)]
                    /\ Finish(r, ExceptHandler(req[r].client_id))
             \/ /\ ops' = [ops EXCEPT ![r] = (opened \o Cancels(n, FALSE)) \o
                              <<OpEntry("qualifyContracts", <<>>, "pending")>>]
                /\ pc' = [pc EXCEPT ![r] = "qualify"]
                /\ UNCHANGED result

\* Lines 272-276: qualifyContracts returns, then the blocking ib.reqPositions().
FlattenPositions(r) ==
    /\ pc[r] = "qualify"
    /\ req[r].kind = "flatten"
    /\ \E o \in Outcomes(ib[r]) :
        IF o = "ok"
        THEN /\ ops' = [ops EXCEPT ![r] = Append(Completed(@, o),
                           OpEntry("reqPositions", <<>>, "pending"))]
             /\ pc' = [pc EXCEPT ![r] = "positions"]
             /\ UNCHANGED result
        ELSE /\ ops' = [ops EXCEPT ![r] = Completed(@, o)]
             /\ Finish(r, ExceptHandler(req[r].client_id))
    /\ UNCHANGED <<ib_connections, lock, waiters, conn, req, ib, inserted, absentAtIssue>>

\* Lines 289-297: the order that closes a position of q shares.
FlattenMarketOrder(q) == IF q > 0 THEN <<"MKT", "SELL", q>> ELSE <<"MKT", "BUY", Abs(q)>>

\* Lines 276-308: the position of the symbol (pos = <<>>: none is listed)
\* decides between the two early returns and placing the closing order.
FlattenReturn(r) ==
    /\ pc[r] = "positions"
    /\ req[r].kind = "flatten"
    /\ \E o \in Outcomes(ib[r]) :
        IF o = "raise"
        THEN /\ ops' = [ops EXCEPT ![r] = Completed(@, o)]
             /\ Finish(r, ExceptHandler(req[r].client_id))
        ELSE \E pos \in {<<>>} \cup {<<q>> : q \in Quantities} :
               IF pos = <<>>
               THEN /\ ops' = [ops EXCEPT ![r] = Completed(@, o)]
                    /\ Finish(r, Failure("No position found for symbol", req[r].client_id))
               ELSE IF pos[1] = 0
               THEN /\ ops' = [ops EXCEPT ![r] = Completed(@, o)]
                    /\ Finish(r, Failure("No position to flatten", req[r].client_id))
               ELSE \E p \in Outcomes(ib[r]) :
                    /\ ops' = [ops EXCEPT ![r] = Append(Completed(@, o),
                                  OpEntry("placeOrder", FlattenMarketOrder(pos[1]), p))]
                    /\ Finish(r, IF p = "ok"
                                 THEN Success("Symbol flatten successfully",
                                              req[r].client_id, pos)
                                 ELSE ExceptHandler(req[r].client_id))
    /\ UNCHANGED <<ib_connections, lock, waiters, conn, req, ib, inserted, absentAtIssue>>

\* A connected session drops: the venue or the network closes it.
NetworkDrop(s) ==
    /\ conn[s] = "connected"
    /\ conn' = [conn EXCEPT ![s] = "disconnected"]
    /\ UNCHANGED <<ib_connections, lock, waiters, req, pc, ib, ops, result,
                   inserted, absentAtIssue>>

Next ==
    \/ \E r \in Requests, k \in Kinds, c \in ClientIds, q \in Quantities :
           EnterAsyncLock(r, k, c, q)
    \/ \E r \in Requests : ConnectReuse(r)
    \/ \E r \in Requests : ConnectReuseReturn(r)
    \/ \E r \in Requests : ConnectCreate(r)
    \/ \E r \in Requests : ConnectReturn(r)
    \/ \E r \in Requests : ConnectSummaryReturn(r)
    \/ \E r \in Requests, c \in ClientIds : DisconnectIb(r, c)
    \/ \E r \in Requests, c \in ClientIds : GetAccounts(r, c)
    \/ \E r \in Requests, c \in ClientIds : AccountDetail(r, c)
    \/ \E r \in Requests : AccountDetailReturn(r)
    \/ \E r \in Requests : GuardFails(r)
    \/ \E r \in Requests : ContractsPosition(r)
    \/ \E r \in Requests : ContractsPositionReturn(r)
    \/ \E r \in Requests : GetOrders(r)
    \/ \E r \in Requests : SendOrder(r)
    \/ \E r \in Requests : SendOrderEntry(r)
    \/ \E r \in Requests : SendOrderStop(r)
    \/ \E r \in Requests : SendOrderTarget(r)
    \/ \E r \in Requests : SendOrderPositions(r)
    \/ \E r \in Requests : SendOrderReturn(r)
    \/ \E r \in Requests : FlattenOrder(r)
    \/ \E r \in Requests : FlattenPositions(r)
    \/ \E r \in Requests : FlattenReturn(r)
    \/ \E s \in Sessions : NetworkDrop(s)

Spec == Init /\ [][Next]_vars

\* The event loop runs every handler that can run: a request whose turn at the
\* lock has come takes it, and a session call a request waits in returns or
\* raises.  Requests need not arrive and sessions need not drop.
RequestStep ==
    \E r \in Requests :
        \/ ConnectReuse(r) \/ ConnectReuseReturn(r) \/ ConnectCreate(r)
        \/ ConnectReturn(r) \/ ConnectSummaryReturn(r)
        \/ AccountDetailReturn(r) \/ GuardFails(r)
        \/ ContractsPosition(r) \/ ContractsPositionReturn(r) \/ GetOrders(r)
        \/ SendOrder(r) \/ SendOrderEntry(r) \/ SendOrderStop(r) \/ SendOrderTarget(r)
        \/ SendOrderPositions(r) \/ SendOrderReturn(r)
        \/ FlattenOrder(r) \/ FlattenPositions(r) \/ FlattenReturn(r)

FairSpec == Spec /\ WF_vars(RequestStep)

\* ================================================================ claims
\* The client id a session was constructed for (line 85).
SessionClient(s) == req[s].client_id

\* Request r has constructed an IB object (line 84).
Constructed(r) == conn[r] # "none"

\* IB object s is connected or in the middle of connecting.
Live(s) == conn[s] \in {"connecting", "connected"}

\* Positions in a call log of the calls that place or cancel an order.
OrderOps(log) == {i \in 1..Len(log) : log[i].op \in {"placeOrder", "cancelOrder"}}

\* The step in which request r looks its session up and tests it.
GuardStep(r) ==
    \/ pc[r] = "idle" /\ pc'[r] # "idle" /\ req'[r].kind \in {"accounts", "account_detail"}
    \/ pc[r] = "wait_lock" /\ pc'[r] # "wait_lock" /\ req[r].kind \in GuardedKinds

\* The step in which disconnect request r runs, for client id c.
DisconnectStep(r, c) ==
    pc[r] = "idle" /\ pc'[r] = "done" /\ req'[r] = [kind |-> "disconnect", client_id |-> c,
                                                  position_qty |-> 0]

\* C1: of the connect requests that arrive together for one client id that is
\* absent from the registry, exactly one constructs a session: no two of them
\* both construct one.  (An entry is never removed in this program, so two
\* requests that both arrived while the key was absent were pending together.)
C1_OneSessionForConcurrentConnects ==
    \A r1, r2 \in Requests :
        ( /\ r1 # r2
          /\ pc[r1] # "idle" /\ pc[r2] # "idle"
          /\ req[r1].kind = "connect" /\ req[r2].kind = "connect"
          /\ req[r1].client_id = req[r2].client_id
          /\ absentAtIssue[r1] /\ absentAtIssue[r2] )
        => ~(Constructed(r1) /\ Constructed(r2))

\* C2: at most one session per client id is live, and a live session is the
\* one the registry maps its client id to.
C2_OneLiveSessionPerClient ==
    /\ \A s1, s2 \in Sessions :
           (Live(s1) /\ Live(s2) /\ SessionClient(s1) = SessionClient(s2)) => s1 = s2
    /\ \A s \in Sessions : Live(s) => ib_connections[SessionClient(s)] = s

\* C3: a disconnect for a client id whose entry is present and connected
\* disconnects the session, removes the entry and reports "Disconnected".
C3_DisconnectRemovesEntry ==
    [][\A r \in Requests, c \in ClientIds :
          (DisconnectStep(r, c) /\ ib_connections[c] # None
             /\ conn[ib_connections[c]] = "connected")
          => /\ result'[r] = Success("Disconnected", c, <<>>)
             /\ ib_connections'[c] = None
             /\ conn'[ib_connections[c]] = "disconnected"]_vars

\* C4: a guarded operation for a client id that was never inserted returns
\* NoConnection and makes no call on a session.
C4_NeverInsertedNoConnection ==
    \A r \in Requests :
        (pc[r] = "done" /\ req[r].kind \in GuardedKinds /\ req[r].client_id \notin inserted)
        => (result[r] = NoConnection(req[r].client_id) /\ ops[r] = <<>>)

\* C5: a request that is inside a session call does not hold the registry
\* lock, so the request at the head of the lock's queue is never kept waiting
\* by a session call.
C5_NoLockAcrossBrokerCall ==
    \A r \in Requests : InBrokerCall(r) => lock # r

\* C6 as stated: a connect for a client id whose entry is present and connected
\* makes no connect call, constructs no session, leaves the registry as it
\* was, fetches the account summary from the stored session and returns
\* status true, "Already connected".
C6_ReuseAlwaysSucceeds ==
    [][\A r \in Requests :
          LET c == req[r].client_id IN
          /\ ( /\ HoldsTurn(r) /\ req[r].kind = "connect" /\ pc'[r] # pc[r]
               /\ ib_connections[c] # None /\ conn[ib_connections[c]] = "connected" )
             => /\ pc'[r] = "reuse_summary"
                /\ ib_connections' = ib_connections
                /\ conn'[r] = "none"
                /\ ops'[r] = <<OpEntry("accountSummaryAsync", <<>>, "pending")>>
          /\ pc[r] = "reuse_summary"
             => /\ ib_connections' = ib_connections
                /\ conn'[r] = "none"
                /\ pc'[r] = "done" =>
                     /\ ops'[r] = <<OpEntry("accountSummaryAsync", <<>>, "ok")>>
                     /\ result'[r] = ConnectSuccess("Already connected", c)]_vars

\* C6 amended: the same, except that the request returns status true,
\* "Already connected" only when the fetch of the account summary returned
\* (and the summary has a row to read the account from), and status false with
\* the error when the fetch raises or the summary returned is empty.
C6_ReuseWithoutConnect ==
    [][\A r \in Requests :
          LET c == req[r].client_id IN
          /\ ( /\ HoldsTurn(r) /\ req[r].kind = "connect" /\ pc'[r] # pc[r]
               /\ ib_connections[c] # None /\ conn[ib_connections[c]] = "connected" )
             => /\ pc'[r] = "reuse_summary"
                /\ ib_connections' = ib_connections
                /\ conn'[r] = "none"
                /\ ops'[r] = <<OpEntry("accountSummaryAsync", <<>>, "pending")>>
          /\ pc[r] = "reuse_summary"
             => /\ ib_connections' = ib_connections
                /\ conn'[r] = "none"
                /\ pc'[r] = "done" =>
                     \/ /\ ops'[r] = <<OpEntry("accountSummaryAsync", <<>>, "ok")>>
                        /\ result'[r] \in {ConnectSuccess("Already connected", c),
                                          ExceptHandler(c)}
                     \/ /\ ops'[r] = <<OpEntry("accountSummaryAsync", <<>>, "raise")>>
                        /\ result'[r] = ExceptHandler(c)]_vars

\* A connect request found its client id connected and returned "Already connected".
C6_Witness ==
    \E r \in Requests :
        /\ pc[r] = "done" /\ req[r].kind = "connect"
        /\ result[r] = ConnectSuccess("Already connected", req[r].client_id)
        /\ ~Constructed(r)

\* C7: a disconnect for a client id with no entry returns "No connection found
\* for clientId" and leaves the registry as it was.
C7_DisconnectAbsent ==
    [][\A r \in Requests, c \in ClientIds :
          (DisconnectStep(r, c) /\ ib_connections[c] = None)
          => (result'[r] = NoConnection(c) /\ ib_connections' = ib_connections)]_vars

\* C8: a guarded operation on a client id whose entry is present but not
\* connected returns "Not connected" and makes no call on the session; and
\* send-order and flatten place or cancel an order only after their own guard
\* found the entry present and connected.
C8_GuardRejectsDisconnected ==
    [][\A r \in Requests :
          LET c == req'[r].client_id IN
          /\ (GuardStep(r) /\ ib_connections[c] # None
                /\ conn[ib_connections[c]] # "connected")
             => (pc'[r] = "done" /\ result'[r] = NotConnected(c) /\ ops'[r] = <<>>)
          /\ OrderOps(ops'[r]) # OrderOps(ops[r])
             => \/ GuardStep(r) /\ ib_connections[c] # None
                      /\ conn[ib_connections[c]] = "connected"
                \/ pc[r] \notin {"idle", "wait_lock"} /\ ib[r] # None]_vars

\* C9: when the connect call of a request raises or returns without a
\* connection, the request returns status false and the registry holds an
\* entry for the client id whose session is not connected; a later connect
\* that finds such an entry calls connectAsync again.
C9_FailedConnectLeavesDisconnectedEntry ==
    [][\A r \in Requests :
          LET c == req[r].client_id IN
          /\ (pc[r] = "connecting" /\ pc'[r] = "done")
             => /\ result'[r].status = FALSE
                /\ ib_connections'[c] # None
                /\ conn'[ib_connections'[c]] # "connected"
          /\ ( /\ HoldsTurn(r) /\ req[r].kind = "connect" /\ pc'[r] # pc[r]
               /\ ib_connections[c] # None /\ conn[ib_connections[c]] # "connected" )
             => (pc'[r] = "connecting" /\ ops'[r][Len(ops'[r])].op = "connectAsync")]_vars

\* C10: every request that has returned has returned a dictionary with a
\* status and a message, and a failure carries the client id of the request
\* (at the top level or, for "Connection failed", under "data").
C10_StructuredResults ==
    \A r \in Requests :
        pc[r] = "done" =>
            /\ result[r] # NoResult
            /\ result[r].status \in BOOLEAN
            /\ result[r].message # ""
            /\ result[r].status = FALSE =>
                 (result[r].clientId = req[r].client_id \/ result[r].data = req[r].client_id)

\* A send-order request failed at its stop order, after placing the entry order.
C10_Witness ==
    \E r \in Requests :
        /\ pc[r] = "done" /\ req[r].kind = "send_order"
        /\ result[r] = ExceptHandler(req[r].client_id)
        /\ Len(ops[r]) = 3 /\ ops[r][2].outcome = "ok" /\ ops[r][3].outcome = "raise"

\* C11: a connect for a client id that has an entry keeps the stored session
\* object (and reconnects that object when it is not connected); a session is
\* constructed and stored only when the client id has no entry.
C11_ConnectKeepsExistingSession ==
    [][\A r \in Requests :
          LET c == req[r].client_id IN
          (HoldsTurn(r) /\ req[r].kind = "connect" /\ pc'[r] # pc[r])
          => /\ ib_connections[c] # None
                => /\ ib_connections'[c] = ib_connections[c]
                   /\ conn'[r] = "none"
                   /\ conn[ib_connections[c]] # "connected"
                        => conn'[ib_connections[c]] = "connecting"
             /\ conn'[r] # "none" => ib_connections[c] = None]_vars

\* C12: an entry goes from present to absent only in the step of a disconnect
\* for the same client id that disconnects the session and reports
\* "Disconnected".
C12_RemovedOnlyByDisconnect ==
    [][\A c \in ClientIds :
          (ib_connections[c] # None /\ ib_connections'[c] = None)
          => \E r \in Requests :
                /\ DisconnectStep(r, c)
                /\ result'[r] = Success("Disconnected", c, <<>>)
                /\ conn'[ib_connections[c]] = "disconnected"]_vars

\* The connect that stored the entry has failed, a disconnect for the same
\* client id has run on the stored entry and failed, and the entry is still there.
C12_Witness ==
    \E r1, r2 \in Requests, c \in ClientIds :
        /\ ib_connections[c] = r1
        /\ pc[r1] = "done" /\ result[r1].status = FALSE
        /\ pc[r2] = "done" /\ req[r2] = [kind |-> "disconnect", client_id |-> c,
                                         position_qty |-> 0]
        /\ ~absentAtIssue[r2] /\ result[r2].status = FALSE

\* C13: a disconnect for a client id whose entry is present but not connected
\* returns status true, "Already disconnected", makes no call on the session
\* and leaves the registry as it was.
C13_AlreadyDisconnected ==
    [][\A r \in Requests, c \in ClientIds :
          (DisconnectStep(r, c) /\ ib_connections[c] # None
             /\ conn[ib_connections[c]] # "connected")
          => /\ result'[r] = Success("Already disconnected", c, <<>>)
             /\ ops'[r] = <<>>
             /\ ib_connections' = ib_connections
             /\ conn' = conn]_vars

\* C14: no step of a guarded operation (accounts, account-detail, send-order,
\* flatten, contracts-position, orders) changes the registry mapping.
C14_LookupNeverCreates ==
    [][\A r \in Requests :
          (pc'[r] # pc[r] /\ req'[r].kind \in GuardedKinds)
          => ib_connections' = ib_connections]_vars

\* A guarded operation has succeeded on a registered client id while another
\* client id is still absent.
C14_Witness ==
    \E r \in Requests :
        /\ pc[r] = "done" /\ req[r].kind \in GuardedKinds
        /\ result[r].status = TRUE
        /\ ib_connections[req[r].client_id] # None
        /\ \E c \in ClientIds : ib_connections[c] = None

\* The calls of send-order in the claimed order, for a request of q shares.
SendOrderPlan(q) ==
    << <<"qualifyContracts", <<>> >>,
       <<"placeOrder", <<"MKT", "BUY", q>> >>,
       <<"placeOrder", <<"STP", "SELL", IF q < 0 THEN 0 - q ELSE q>> >>,
       <<"placeOrder", <<"LMT", "SELL", IF q < 0 THEN 0 - q ELSE q>> >>,
       <<"reqPositions", <<>> >> >>

\* C15: the calls of a send-order request are a prefix of: qualify contract,
\* entry order, stop order, target order, (read positions); only the last call
\* made can have failed, a failed call ends the request with status false, no
\* order is ever cancelled, and status true is returned only after all calls.
C15_OrdersInSequence ==
    \A r \in Requests :
        req[r].kind = "send_order" =>
            LET log == ops[r]
                plan == SendOrderPlan(req[r].position_qty)
            IN  /\ Len(log) <= 5
                /\ \A i \in 1..Len(log) :
                       /\ log[i].op = plan[i][1]
                       /\ log[i].arg = plan[i][2]
                       /\ i < Len(log) => log[i].outcome = "ok"
                /\ (log # <<>> /\ log[Len(log)].outcome = "raise")
                       => (pc[r] = "done" /\ result[r].status = FALSE)
                /\ (pc[r] = "done" /\ result[r].status = TRUE)
                       => (Len(log) = 5 /\ log[5].outcome = "ok")

\* A send-order request failed at its target order: the entry and stop orders
\* were placed before and stay placed.
C15_Witness ==
    \E r \in Requests :
        /\ pc[r] = "done" /\ req[r].kind = "send_order" /\ result[r].status = FALSE
        /\ Len(ops[r]) = 4
        /\ ops[r][2].outcome = "ok" /\ ops[r][3].outcome = "ok"
        /\ ops[r][4] = OpEntry("placeOrder", <<"LMT", "SELL", 1>>, "raise")

\* C16: a flatten request that passed the guard and none of whose session
\* calls failed either (position q # 0) cancelled the open orders, then placed
\* exactly one offsetting market order (SELL q for q > 0, BUY |q| for q < 0)
\* and returned status true, whether or not the symbol had open orders; or
\* (position zero or absent) placed no order and returned status false.
C16_FlattenOffsetsPosition ==
    \A r \in Requests :
        ( /\ req[r].kind = "flatten" /\ pc[r] = "done" /\ ops[r] # <<>>
          /\ \A i \in 1..Len(ops[r]) : ops[r][i].outcome = "ok" )
        => LET log == ops[r]
               placed == {i \in 1..Len(log) : log[i].op = "placeOrder"}
               cancelled == {i \in 1..Len(log) : log[i].op = "cancelOrder"}
               pos == result[r].position
           IN  \/ /\ result[r].status = TRUE
                  /\ pos # <<>> /\ pos[1] # 0
                  /\ Cardinality(placed) = 1
                  /\ \A i \in placed :
                        /\ log[i].arg = IF pos[1] > 0 THEN <<"MKT", "SELL", pos[1]>>
                                        ELSE <<"MKT", "BUY", 0 - pos[1]>>
                        /\ \A j \in cancelled : j < i
               \/ /\ result[r].status = FALSE
                  /\ placed = {}
                  /\ result[r].message \in {"No position found for symbol",
                                            "No position to flatten"}

\* C17: the step of a disconnect changes the registry at most by removing, for
\* its own client id, the session it looked up and disconnected; and when a
\* connect reports "Connected", the session it connected is the one the
\* registry holds for its client id (it has not been dropped).
C17_DisconnectRemovesOnlyItsSession ==
    [][/\ \A r \in Requests, c \in ClientIds :
            DisconnectStep(r, c)
            => \A c2 \in ClientIds :
                  ib_connections'[c2] # ib_connections[c2]
                  => /\ c2 = c
                     /\ ib_connections'[c] = None
                     /\ ib'[r] = ib_connections[c]
                     /\ conn'[ib_connections[c]] = "disconnected"
       /\ \A r \in Requests :
            ( /\ pc[r] = "connect_summary" /\ pc'[r] = "done"
              /\ result'[r] = ConnectSuccess("Connected", req[r].client_id) )
            => ib_connections'[req[r].client_id] = ib[r]]_vars

\* Request r waits for the lock and cannot take it now.
Blocked(r) == pc[r] = "wait_lock" /\ ~HoldsTurn(r)

\* C18: under fair scheduling, with every session call returning or raising,
\* every request that has arrived returns, the lock is released after every
\* acquisition, and the requests in progress are never all blocked at the lock.
\* A request that has returned stays returned and finitely many requests
\* arrive, so "every arrived request returns and every holder releases the
\* lock" is: from some point on every arrived request has returned and the
\* lock is free.
C18_EveryRequestReturns ==
    /\ <>[](/\ \A r \in Requests : pc[r] \in {"idle", "done"}
            /\ lock = None)
    /\ []( \/ \E r \in Requests : (pc[r] \notin {"idle", "done"} /\ ~Blocked(r))
           \/ \A r \in Requests : pc[r] \in {"idle", "done"} )

\* The lock is held across a session call while another request is blocked on it.
C18_Witness ==
    \E r1, r2 \in Requests :
        /\ lock = r1 /\ InBrokerCall(r1)
        /\ waiters # <<>> /\ Head(waiters) = r2 /\ Blocked(r2)
====
